---- MODULE Spec2Model ----
(***************************************************************************)
(* A model of cmtstringer (src/main.go): the extraction of the constants   *)
(* of a target type from a package's const groups (parsePackage), the      *)
(* derivation of each constant's message from its doc comment, the         *)
(* rendering of the String method (fileTemplateStr) and the run over the   *)
(* packages of a directory (parseDir, checkPackages, genfile).             *)
(*                                                                         *)
(* Go strings are sequences of one-character strings, so that HasPrefix,   *)
(* TrimPrefix, TrimSpace, ToLower, %q and filepath.Join are computed       *)
(* character by character as the library computes them.                    *)
(***************************************************************************)
EXTENDS Integers, Sequences, FiniteSets, TLC

VARIABLES
    mode,       \* which part of the program the behaviour exercises
    pc,         \* position of the running function
    typeName,   \* the -type flag
    \* ---- parsePackage, walking the declarations of one package
    gd,         \* the specs of the current const group visited so far
    typ,        \* the remembered type (var typ string)
    values,     \* the result slice
    out,        \* history: the entries appended for the last spec visited
    mark,       \* history: len(values) when the current group was entered
    ndecls,     \* declarations visited
    nspecs,     \* specs visited
    \* ---- the label derivation applied to one name and one doc text
    lname,
    ldoc,
    lmsg,
    \* ---- parseDir
    dir,        \* args[0]
    output,     \* the -output flag
    pkgs,       \* the map parser.ParseDir returned, as a set of packages
    todo,       \* packages the range loop has not visited yet
    cur,        \* the package of the current iteration (<<>> outside one)
    vals,       \* values of the current iteration
    outputName, \* outputName of the current iteration
    buf,        \* the rendered template data of the current iteration
    fs,         \* files written: a set of [name, by, data]
    steps,      \* history: the steps taken, in order, as [pkg, step, ok]
    exit        \* exit status: -1 while running, 0 on return, 1 after log.Fatal,
                \* 2 after os.Exit(2)

vars == <<mode, pc, typeName, gd, typ, values, out, mark, ndecls, nspecs,
          lname, ldoc, lmsg,
          dir, output, pkgs, todo, cur, vals, outputName, buf, fs, steps, exit>>

extractVars == <<gd, typ, values, out, mark, ndecls, nspecs>>
labelVars == <<lname, ldoc, lmsg>>
runVars == <<dir, output, pkgs, todo, cur, vals, outputName, buf, fs, steps, exit>>

\* ------------------------------------------------------------------ bounds

\* specs visited in one package
MaxSpecs == 3
\* declarations visited in one package
MaxDecls == 2
\* length of a doc text
MaxDocLen == 5
\* packages found in the directory
MaxPkgs == 3

\* ----------------------------------------------------------------- strings

EmptyStr == <<>>

UpperLetters == <<"A", "B", "C", "D", "E", "F", "G", "H", "I", "J", "K", "L", "M", "N", "O", "P", "Q", "R", "S", "T", "U", "V", "W", "X", "Y", "Z">>
LowerLetters == <<"a", "b", "c", "d", "e", "f", "g", "h", "i", "j", "k", "l", "m", "n", "o", "p", "q", "r", "s", "t", "u", "v", "w", "x", "y", "z">>

Range(s) == {s[i] : i \in 1..Len(s)}

\* unicode.IsUpper on the letters of the model
IsUpper(c) == c \in Range(UpperLetters)

\* unicode.ToLower
ToLowerCh(c) ==
    IF IsUpper(c)
    THEN LowerLetters[CHOOSE i \in 1..Len(UpperLetters) : UpperLetters[i] = c]
    ELSE c

\* strings.ToLower
ToLower(s) == [i \in 1..Len(s) |-> ToLowerCh(s[i])]

\* strings.HasPrefix
HasPrefix(s, prefix) ==
    /\ Len(s) >= Len(prefix)
    /\ SubSeq(s, 1, Len(prefix)) = prefix

\* strings.TrimPrefix
TrimPrefix(s, prefix) ==
    IF HasPrefix(s, prefix) THEN SubSeq(s, Len(prefix) + 1, Len(s)) ELSE s

\* unicode.IsSpace on the characters of the model
WhiteSpace == {" ", "\t", "\n", "\r"}

RECURSIVE TrimLeft(_)
TrimLeft(s) ==
    IF s # <<>> /\ s[1] \in WhiteSpace THEN TrimLeft(Tail(s)) ELSE s

RECURSIVE TrimRight(_)
TrimRight(s) ==
    IF s # <<>> /\ s[Len(s)] \in WhiteSpace
    THEN TrimRight(SubSeq(s, 1, Len(s) - 1))
    ELSE s

\* strings.TrimSpace
TrimSpace(s) == TrimRight(TrimLeft(s))

\* strings.NewReplacer("\r\n", " ", "\r", " ", "\n", " ").Replace
RECURSIVE NlReplace(_)
NlReplace(s) ==
    IF s = <<>> THEN <<>>
    ELSE IF Len(s) >= 2 /\ s[1] = "\r" /\ s[2] = "\n"
         THEN <<" ">> \o NlReplace(SubSeq(s, 3, Len(s)))
    ELSE IF s[1] \in {"\r", "\n"}
         THEN <<" ">> \o NlReplace(Tail(s))
    ELSE <<s[1]>> \o NlReplace(Tail(s))

\* ------------------------------------------------------------- the go/ast

\* vs.Type: nil, an *ast.Ident, or another expression (pkg.T)
NoType == [kind |-> "nil", Name |-> EmptyStr]
Ident(n) == [kind |-> "Ident", Name |-> n]
SelectorExpr == [kind |-> "SelectorExpr", Name |-> EmptyStr]

\* vs.Doc: nil is <<>>, a comment group is <<its Text()>>
NoDoc == <<>>
DocOf(text) == <<text>>

\* an *ast.ValueSpec: HasValues is len(vs.Values) > 0
ValueSpec(type, hasValues, names, doc) ==
    [Type |-> type, HasValues |-> hasValues, Names |-> names, Doc |-> doc]

\* ast.Ident.IsExported
IsExported(name) == name # <<>> /\ IsUpper(name[1])

\* constValue
constValue(name, msg) == [Name |-> name, Msg |-> msg]

\* --------------------------------------------------- the label derivation

\* main.go:229-239: the message of one name of a spec with doc vs.Doc
Message(constName, doc) ==
    IF doc = NoDoc THEN EmptyStr
    ELSE LET comment == doc[1] IN
         IF HasPrefix(comment, constName)
         THEN TrimSpace(TrimPrefix(NlReplace(comment), constName))
         ELSE EmptyStr

\* ------------------------------------------------------------ parsePackage

Blank == <<"_">>

\* KeepName without the test of line 225
KeepNameNoFilter(name) == TRUE

\* main.go:225: the names the inner loop does not skip
KeepName(name) == ~(name = Blank \/ ~IsExported(name))

\* main.go:220-247: the entries appended for the names of one spec
RECURSIVE ScanNames(_, _)
ScanNames(names, doc) ==
    IF names = <<>> THEN <<>>
    ELSE (IF KeepName(Head(names))
          THEN <<constValue(Head(names), Message(Head(names), doc))>>
          ELSE <<>>) \o ScanNames(Tail(names), doc)

\* ParseSpec without the assignment of line 203
ParseSpecKeepsUntyped(t, vs, tName) ==
    IF vs.Type.kind = "nil" /\ vs.HasValues
    THEN [typ |-> t, out |-> <<>>]
    ELSE IF vs.Type.kind # "nil" /\ vs.Type.kind # "Ident"
    THEN [typ |-> t, out |-> <<>>]
    ELSE LET t2 == IF vs.Type.kind = "Ident" THEN vs.Type.Name ELSE t IN
         IF t2 # tName
         THEN [typ |-> t2, out |-> <<>>]
         ELSE [typ |-> t2, out |-> ScanNames(vs.Names, vs.Doc)]

\* ParseSpec without the test of line 216
ParseSpecNoTypeCheck(t, vs, tName) ==
    IF vs.Type.kind = "nil" /\ vs.HasValues
    THEN [typ |-> EmptyStr, out |-> <<>>]
    ELSE IF vs.Type.kind # "nil" /\ vs.Type.kind # "Ident"
    THEN [typ |-> t, out |-> <<>>]
    ELSE LET t2 == IF vs.Type.kind = "Ident" THEN vs.Type.Name ELSE t IN
         [typ |-> t2, out |-> ScanNames(vs.Names, vs.Doc)]

\* main.go:198-247: one iteration of the loop over gd.Specs, from remembered
\* type t: the remembered type after it and the entries it appends
ParseSpec(t, vs, tName) ==
    IF vs.Type.kind = "nil" /\ vs.HasValues
    THEN [typ |-> EmptyStr, out |-> <<>>]
    ELSE IF vs.Type.kind # "nil" /\ vs.Type.kind # "Ident"
    THEN [typ |-> t, out |-> <<>>]
    ELSE LET t2 == IF vs.Type.kind = "Ident" THEN vs.Type.Name ELSE t IN
         IF t2 # tName
         THEN [typ |-> t2, out |-> <<>>]
         ELSE [typ |-> t2, out |-> ScanNames(vs.Names, vs.Doc)]

\* main.go:196-248: the loop over the specs of one const group, from
\* remembered type t
RECURSIVE ParseSpecs(_, _, _)
ParseSpecs(t, specs, tName) ==
    IF specs = <<>> THEN [typ |-> t, out |-> <<>>]
    ELSE LET r == ParseSpec(t, Head(specs), tName)
             rest == ParseSpecs(r.typ, Tail(specs), tName)
         IN [typ |-> rest.typ, out |-> r.out \o rest.out]

\* GroupTyp with typ declared outside the loop over the declarations
GroupTypCarried(t) == t

\* main.go:196: var typ string, at the start of every const group
GroupTyp(t) == EmptyStr

\* a declaration: a const group is [Tok |-> "CONST", Specs |-> ...]; a
\* func, var, type or import declaration has another Tok and is skipped
ConstDecl(specs) == [Tok |-> "CONST", Specs |-> specs]
OtherDecl == [Tok |-> "OTHER", Specs |-> <<>>]

\* main.go:184-253: parsePackage over the declarations of the package's
\* files, in the order the loops visit them
RECURSIVE ParseDecls(_, _, _)
ParseDecls(t, decls, tName) ==
    IF decls = <<>> THEN <<>>
    ELSE LET d == Head(decls) IN
         IF d.Tok # "CONST" THEN ParseDecls(t, Tail(decls), tName)
         ELSE LET r == ParseSpecs(GroupTyp(t), d.Specs, tName) IN
              r.out \o ParseDecls(r.typ, Tail(decls), tName)

parsePackage(decls, tName) == ParseDecls(EmptyStr, decls, tName)

\* ------------------------------------------- the inputs of the extraction

TName == <<"T">>
UName == <<"U">>

Digits == <<"1", "2", "3", "4", "5", "6", "7", "8", "9">>

\* the names of the k-th spec of the package: no name is declared twice
NameA(k) == <<"A", Digits[k]>>
Nameb(k) == <<"b", Digits[k]>>
NameC(k) == <<"C", Digits[k]>>

\* the doc comment "// A<k> x"
DocA(k) == NameA(k) \o <<" ", "x", "\n">>

\* the types a spec may carry
TypeExprs == {NoType, Ident(TName), Ident(UName), SelectorExpr}

\* the names and doc the k-th spec may carry: one documented exported name,
\* or a discard, an unexported and an exported name without doc
NameDocs(k) == { <<(<<NameA(k)>>), DocOf(DocA(k))>>,
                 <<(<<Blank, Nameb(k), NameC(k)>>), NoDoc>> }

\* the specs the k-th spec of the package is drawn from
ValueSpecs(k) ==
    { ValueSpec(t, h, nd[1], nd[2]) :
        t \in TypeExprs, h \in BOOLEAN, nd \in NameDocs(k) }

\* ------------------------------------------------- parsePackage, stepwise

InitExtract ==
    /\ gd = <<>>
    /\ typ = EmptyStr
    /\ values = <<>>
    /\ out = <<>>
    /\ mark = 0
    /\ ndecls = 0
    /\ nspecs = 0

IdleLabel ==
    /\ lname = EmptyStr
    /\ ldoc = NoDoc
    /\ lmsg = EmptyStr

IdleRun ==
    /\ dir = EmptyStr
    /\ output = EmptyStr
    /\ pkgs = {}
    /\ todo = {}
    /\ cur = <<>>
    /\ vals = <<>>
    /\ outputName = EmptyStr
    /\ buf = <<>>
    /\ fs = {}
    /\ steps = <<>>
    /\ exit = -1

Init ==
    /\ mode = "extract"
    /\ pc = "decls"
    /\ typeName = TName
    /\ InitExtract
    /\ IdleLabel
    /\ IdleRun

\* main.go:188-194: a declaration that is no const group is skipped
SkipDecl ==
    /\ mode = "extract"
    /\ pc \in {"decls", "specs"}
    /\ ndecls < MaxDecls
    /\ ndecls' = ndecls + 1
    /\ pc' = "decls"
    /\ gd' = <<>>
    /\ out' = <<>>
    /\ mark' = Len(values)
    /\ UNCHANGED <<mode, typeName, typ, values, nspecs, labelVars, runVars>>

\* main.go:187-196: the loop reaches a const group; typ is declared
EnterConstDecl ==
    /\ mode = "extract"
    /\ pc \in {"decls", "specs"}
    /\ ndecls < MaxDecls
    /\ ndecls' = ndecls + 1
    /\ pc' = "specs"
    /\ typ' = GroupTyp(typ)
    /\ gd' = <<>>
    /\ out' = <<>>
    /\ mark' = Len(values)
    /\ UNCHANGED <<mode, typeName, values, nspecs, labelVars, runVars>>

\* main.go:197-248: one iteration of the loop over gd.Specs
VisitSpec ==
    /\ mode = "extract"
    /\ pc = "specs"
    /\ nspecs < MaxSpecs
    /\ \E vs \in ValueSpecs(nspecs + 1) :
         LET r == ParseSpec(typ, vs, typeName) IN
         /\ typ' = r.typ
         /\ out' = r.out
         /\ values' = values \o r.out
         /\ gd' = Append(gd, vs)
    /\ nspecs' = nspecs + 1
    /\ UNCHANGED <<mode, pc, typeName, mark, ndecls, labelVars, runVars>>

\* main.go:252: return values
ReturnValues ==
    /\ mode = "extract"
    /\ pc \in {"decls", "specs"}
    /\ pc' = "returned"
    /\ UNCHANGED <<mode, typeName, extractVars, labelVars, runVars>>

Next == SkipDecl \/ EnterConstDecl \/ VisitSpec \/ ReturnValues

Spec == Init /\ [][Next]_vars

\* ------------------------------------------- claims about the extraction

IsTyped(vs) == vs.Type.kind # "nil"
IsBare(vs) == vs.Type.kind = "nil" /\ ~vs.HasValues
IsUntypedValue(vs) == vs.Type.kind = "nil" /\ vs.HasValues

\* the names of a list of entries
EntryNames(entries) == [i \in 1..Len(entries) |-> entries[i].Name]

\* the exported names of a spec other than the discard identifier, in order
ExportedNames(names) ==
    SelectSeq(names, LAMBDA n : n # <<"_">> /\ n # <<>> /\ n[1] \in Range(UpperLetters))

\* the entries appended since the current group was entered
GroupValues == SubSeq(values, mark + 1, Len(values))

\* the position of the nearest spec before i that carries a type (0: none)
NearestTyped(specs, i) ==
    IF \E j \in 1..(i - 1) : IsTyped(specs[j])
    THEN CHOOSE j \in 1..(i - 1) :
            /\ IsTyped(specs[j])
            /\ \A k \in (j + 1)..(i - 1) : ~IsTyped(specs[k])
    ELSE 0

\* a group the type checker accepts: a spec that carries a type, and the
\* first spec of a group, has an initializer (checkPackages ends the run on
\* any other group before parsePackage sees it)
TypeChecks(specs) ==
    \A i \in 1..Len(specs) : (i = 1 \/ IsTyped(specs[i])) => specs[i].HasValues

\* C1 (as claimed, on the groups the type checker accepts): a bare spec is
\* given the type of the nearest preceding spec with an explicit type, when
\* no untyped spec with an initializer lies between them: its exported names
\* are appended if and only if that type is the identifier typeName, also
\* when that nearest type is a qualified type and an earlier spec was typed
\* with typeName.
C1_BareTakesNearestExplicitType ==
    (pc = "specs" /\ gd # <<>> /\ TypeChecks(gd)) =>
        LET n == Len(gd)
            j == NearestTyped(gd, n)
        IN (/\ IsBare(gd[n])
            /\ j > 0
            /\ \A k \in (j + 1)..(n - 1) : ~IsUntypedValue(gd[k]))
           => EntryNames(out) =
                IF gd[j].Type = Ident(typeName)
                THEN ExportedNames(gd[n].Names)
                ELSE <<>>

\* C2: a spec with no type and an initializer appends nothing and leaves the
\* remembered type empty, and a bare spec after it appends nothing as long
\* as no spec between them carries the type typeName.
C2_UntypedValueClears ==
    (pc = "specs" /\ gd # <<>>) =>
        LET n == Len(gd) IN
        /\ IsUntypedValue(gd[n]) => (out = <<>> /\ typ = EmptyStr)
        /\ (/\ IsBare(gd[n])
            /\ \E k \in 1..(n - 1) :
                 /\ IsUntypedValue(gd[k])
                 /\ \A j \in (k + 1)..(n - 1) : gd[j].Type # Ident(typeName))
           => out = <<>>

\* C2 witness: a spec typed typeName, then an untyped spec with a value, then
\* a bare spec that appended nothing
C2_Witness ==
    /\ pc = "specs"
    /\ Len(gd) = 3
    /\ gd[1].Type = Ident(typeName)
    /\ gd[1].HasValues
    /\ IsUntypedValue(gd[2])
    /\ IsBare(gd[3])
    /\ Len(values) = Len(ExportedNames(gd[1].Names))
    /\ values # <<>>

\* C5: no entry of the result is named "_" or has an unexported name.
C5_NoBlankNoUnexported ==
    \A i \in 1..Len(values) :
        /\ values[i].Name # <<"_">>
        /\ values[i].Name # <<>>
        /\ values[i].Name[1] \in Range(UpperLetters)

\* C5 witness: a spec of the target type binding "_", an unexported and an
\* exported name has been visited and appended one entry
C5_Witness ==
    /\ pc = "specs"
    /\ gd # <<>>
    /\ gd[Len(gd)].Type = Ident(typeName)
    /\ Len(gd[Len(gd)].Names) = 3
    /\ gd[Len(gd)].Names[1] = <<"_">>
    /\ ~IsExported(gd[Len(gd)].Names[2])
    /\ EntryNames(out) = <<gd[Len(gd)].Names[3]>>

\* the names claimed for a group whose specs all carry a type
RECURSIVE TypedGroupNames(_, _)
TypedGroupNames(specs, tName) ==
    IF specs = <<>> THEN <<>>
    ELSE (IF Head(specs).Type = Ident(tName)
          THEN ExportedNames(Head(specs).Names)
          ELSE <<>>) \o TypedGroupNames(Tail(specs), tName)

AllTyped(specs) == \A i \in 1..Len(specs) : IsTyped(specs[i])

\* C8: for a group whose specs all carry a type, the entries appended are
\* exactly the exported, non-discard names of the specs typed typeName, in
\* source order.
C8_AllTypedGroup ==
    (pc = "specs" /\ AllTyped(gd)) =>
        EntryNames(GroupValues) = TypedGroupNames(gd, typeName)

\* C8 witness: three typed specs, of the target type, of another type and of
\* the target type without initializer, after which two specs have appended
C8_Witness ==
    /\ pc = "specs"
    /\ Len(gd) = 3
    /\ gd[1].Type = Ident(typeName)
    /\ gd[2].Type \in {Ident(UName), SelectorExpr}
    /\ gd[3].Type = Ident(typeName)
    /\ ~gd[3].HasValues
    /\ gd[3].Doc = NoDoc
    /\ Len(GroupValues) = 2

\* C9: the remembered type is empty when a group is entered, and what a
\* group appends is what its own specs yield from an empty remembered type,
\* whatever the earlier groups were; a bare spec that opens a group appends
\* nothing.
C9_GroupsDoNotLeak ==
    (pc = "specs") =>
        /\ gd = <<>> => typ = EmptyStr
        /\ GroupValues = ParseSpecs(EmptyStr, gd, typeName).out
        /\ typ = ParseSpecs(EmptyStr, gd, typeName).typ
        /\ (gd # <<>> /\ IsBare(gd[1]) /\ Len(gd) = 1) => out = <<>>

\* C9 witness: the first group held one spec, which appended (so it was
\* typed typeName and the group ended with that remembered type), and the
\* second group opens with a bare spec
C9_Witness ==
    /\ pc = "specs"
    /\ ndecls = 2
    /\ nspecs = 2
    /\ mark > 0
    /\ Len(gd) = 1
    /\ IsBare(gd[1])
    /\ out = <<>>

\* ------------------------------------------ the label derivation, applied

\* the constant names a doc text is matched against
LabelNames == {<<"A">>, <<"A", "b">>}

\* the characters of a doc text
DocChars == {"A", "b", " ", "\n"}

\* what ast.CommentGroup.Text() returns for a comment: the empty text for
\* a comment without text (a lone // or /**/), and otherwise lines without
\* trailing blanks, no blank line first or last, blank lines not repeated,
\* and a final line break
IsCommentText(t) ==
    \/ t = <<>>
    \/ /\ t[Len(t)] = "\n"
       /\ t[1] # "\n"
       /\ Len(t) >= 2 => t[Len(t) - 1] # "\n"
       /\ \A i \in 1..(Len(t) - 1) : ~(t[i] \in {" ", "\t"} /\ t[i + 1] = "\n")
       /\ \A i \in 1..(Len(t) - 2) :
             ~(t[i] = "\n" /\ t[i + 1] = "\n" /\ t[i + 2] = "\n")

DocTexts ==
    { t \in UNION { [1..n -> DocChars] : n \in 0..MaxDocLen } : IsCommentText(t) }

InitLabel ==
    /\ mode = "label"
    /\ pc = "ready"
    /\ typeName = TName
    /\ InitExtract
    /\ lname \in LabelNames
    /\ ldoc \in {NoDoc} \cup { DocOf(t) : t \in DocTexts }
    /\ lmsg = EmptyStr
    /\ IdleRun

\* main.go:229-239 for one name and one vs.Doc
DeriveMessage ==
    /\ mode = "label"
    /\ pc = "ready"
    /\ lmsg' = Message(lname, ldoc)
    /\ pc' = "derived"
    /\ UNCHANGED <<mode, typeName, extractVars, lname, ldoc, runVars>>

NextLabel == DeriveMessage

SpecLabel == InitLabel /\ [][NextLabel]_vars

\* the first whitespace-delimited token of a text (<<>> when it has none)
RECURSIVE UpToSpace(_)
UpToSpace(s) ==
    IF s = <<>> \/ s[1] \in WhiteSpace THEN <<>>
    ELSE <<s[1]>> \o UpToSpace(Tail(s))

FirstToken(text) == UpToSpace(TrimLeft(text))

\* C3 (as claimed): when the first whitespace-delimited token of the doc
\* text is not exactly the constant's name, also when the name is a proper
\* prefix of that token, the derived message is empty.
C3_EmptyUnlessNameIsFirstToken ==
    (pc = "derived" /\ ldoc # NoDoc /\ FirstToken(ldoc[1]) # lname)
        => lmsg = EmptyStr

\* --------------------------------------------------------------- file paths

RECURSIVE SplitPath(_)
\* the elements of a path between its separators
SplitPath(s) ==
    IF \E i \in 1..Len(s) : s[i] = "/"
    THEN LET i == CHOOSE k \in 1..Len(s) :
                    s[k] = "/" /\ \A m \in 1..(k - 1) : s[m] # "/"
         IN <<SubSeq(s, 1, i - 1)>> \o SplitPath(SubSeq(s, i + 1, Len(s)))
    ELSE <<s>>

RECURSIVE JoinElems(_)
JoinElems(elems) ==
    IF elems = <<>> THEN <<>>
    ELSE IF Len(elems) = 1 THEN elems[1]
    ELSE elems[1] \o <<"/">> \o JoinElems(Tail(elems))

\* filepath.Clean on relative paths without ".." elements: empty and "."
\* elements are dropped, and the empty path is "."
Clean(path) ==
    LET kept == SelectSeq(SplitPath(path), LAMBDA e : e # <<>> /\ e # <<".">>) IN
    IF kept = <<>> THEN <<".">> ELSE JoinElems(kept)

\* filepath.Join of two elements
Join(a, b) ==
    Clean(JoinElems(SelectSeq(<<a, b>>, LAMBDA e : e # <<>>)))

\* filepath.Dir
Dir(path) ==
    LET elems == SplitPath(path) IN
    IF Len(elems) <= 1 THEN <<".">>
    ELSE Clean(JoinElems(SubSeq(elems, 1, Len(elems) - 1)))

\* filepath.Base
Base(path) ==
    LET elems == SplitPath(Clean(path)) IN elems[Len(elems)]

\* main.go:170-178: the destination of the file of package pkgName
OutputName(outputFlag, d, tName, pkgName, numPkgs) ==
    LET baseName == tName \o <<"_", "s", "t", "r", "i", "n", "g", "_", "g", "e", "n", ".", "g", "o">>
        name1 == IF outputFlag = EmptyStr
                 THEN Join(d, ToLower(baseName))
                 ELSE outputFlag
    IN IF numPkgs > 1 THEN pkgName \o <<"_">> \o name1 ELSE name1

\* ------------------------------------------------------------ the template

RECURSIVE Escape(_)
\* the body of strconv.Quote on the characters of the model
Escape(s) ==
    IF s = <<>> THEN <<>>
    ELSE (CASE s[1] = "\"" -> <<"\\", "\"">>
            [] s[1] = "\\" -> <<"\\", "\\">>
            [] s[1] = "\n" -> <<"\\", "n">>
            [] s[1] = "\t" -> <<"\\", "t">>
            [] s[1] = "\r" -> <<"\\", "r">>
            [] OTHER -> <<s[1]>>) \o Escape(Tail(s))

\* main.go:86: printf "%q"
Quote(s) == <<"\"">> \o Escape(s) \o <<"\"">>

RECURSIVE Unescape(_)
\* the value of the body of an interpreted string literal, read up to its
\* closing quote
Unescape(s) ==
    IF s = <<>> \/ s[1] = "\"" THEN <<>>
    ELSE IF s[1] = "\\" /\ Len(s) >= 2
         THEN (CASE s[2] = "n" -> <<"\n">>
                 [] s[2] = "t" -> <<"\t">>
                 [] s[2] = "r" -> <<"\r">>
                 [] OTHER -> <<s[2]>>) \o Unescape(SubSeq(s, 3, Len(s)))
    ELSE <<s[1]>> \o Unescape(Tail(s))

\* the string a Go string literal denotes
Unquote(lit) == Unescape(Tail(lit))

\* main.go:158-168: tmplData
TmplData(pkgName, tName, consts) ==
    [PackageName |-> pkgName,
     TypeName |-> tName,
     Reciever |-> ToLower(<<tName[1]>>),
     Consts |-> consts]

\* main.go:77-91: the template executed on tmplData: the package clause,
\* the receiver and type of the method, and one case per entry returning
\* the literal of its message
Render(data) ==
    [PackageName |-> data.PackageName,
     TypeName |-> data.TypeName,
     Reciever |-> data.Reciever,
     Cases |-> [i \in 1..Len(data.Consts) |->
                  [Name |-> data.Consts[i].Name,
                   Lit |-> Quote(data.Consts[i].Msg)]]]

Unknown == <<"U", "n", "k", "n", "o", "w", "n">>

\* the type of an untyped constant
Untyped == <<"u", "n", "t", "y", "p", "e", "d">>

\* main.go:83-90: the generated method called on a value v of the type, in
\* a package whose constants have the values val and the types typeOf. The
\* switch does not compile when two cases have the same constant value, or
\* when a case constant is of another type than the receiver (an untyped
\* constant is converted to it).
StringMethod(file, val, typeOf, v) ==
    LET cases == file.Cases
        hits == { i \in 1..Len(cases) : val[cases[i].Name] = v }
    IN IF \/ \E i, j \in 1..Len(cases) :
                i # j /\ val[cases[i].Name] = val[cases[j].Name]
          \/ \E i \in 1..Len(cases) :
                typeOf[cases[i].Name] \notin {file.TypeName, Untyped}
       THEN [compiles |-> FALSE, ret |-> EmptyStr]
       ELSE IF hits # {}
       THEN [compiles |-> TRUE,
             ret |-> Unquote(cases[CHOOSE i \in hits : TRUE].Lit)]
       ELSE [compiles |-> TRUE, ret |-> Unknown]

\* --------------------------------------------- the packages of a directory

StatusCodeName == <<"S", "t", "a", "t", "u", "s", "C", "o", "d", "e">>
StatusBadRequest == <<"S", "t", "a", "t", "u", "s", "B", "a", "d", "R", "e", "q", "u", "e", "s", "t">>
StatusNotFound == <<"S", "t", "a", "t", "u", "s", "N", "o", "t", "F", "o", "u", "n", "d">>

\* a package: its name, its declarations, and the value and the type the
\* type checker gives each of its constants
Package(name, decls, val, typeOf) ==
    [Name |-> name, Decls |-> decls, Val |-> val, Typ |-> typeOf]

\* src/unnamed/part_000: package http
PkgHttp ==
    Package(<<"h", "t", "t", "p">>,
        << OtherDecl,
           ConstDecl(<<
             ValueSpec(Ident(StatusCodeName), TRUE, <<StatusBadRequest>>,
                       DocOf(<<"S", "t", "a", "t", "u", "s", "B", "a", "d", "R", "e", "q", "u", "e", "s", "t", " ", "B", "a", "d", " ", "R", "e", "q", "u", "e", "s", "t", "\n">>)),
             ValueSpec(Ident(StatusCodeName), TRUE, <<StatusNotFound>>,
                       DocOf(<<"S", "t", "a", "t", "u", "s", "N", "o", "t", "F", "o", "u", "n", "d", " ", "N", "o", "t", " ", "F", "o", "u", "n", "d", "\n">>)) >>) >>,
        (StatusBadRequest :> 400) @@ (StatusNotFound :> 404),
        (StatusBadRequest :> StatusCodeName) @@ (StatusNotFound :> StatusCodeName))

\* a package without a constant of the type:
\*   const Max = 8
PkgUtil ==
    Package(<<"u", "t", "i", "l">>,
        << ConstDecl(<< ValueSpec(NoType, TRUE, <<<<"M", "a", "x">>>>, NoDoc) >>) >>,
        (<<"M", "a", "x">> :> 8),
        (<<"M", "a", "x">> :> Untyped))

\* a package whose constants take the values of iota, with messages that
\* hold a quote and a backslash:
\*   const (
\*       // Up says "up"
\*       Up StatusCode = iota
\*       // Down a\b
\*       Down
\*       Side
\*   )
PkgFlags ==
    Package(<<"f", "l", "a", "g", "s">>,
        << ConstDecl(<<
             ValueSpec(Ident(StatusCodeName), TRUE, <<<<"U", "p">>>>,
                       DocOf(<<"U", "p", " ", "s", "a", "y", "s", " ", "\"", "u", "p", "\"", "\n">>)),
             ValueSpec(NoType, FALSE, <<<<"D", "o", "w", "n">>>>, DocOf(<<"D", "o", "w", "n", " ", "a", "\\", "b", "\n">>)),
             ValueSpec(NoType, FALSE, <<<<"S", "i", "d", "e">>>>, NoDoc) >>) >>,
        (<<"U", "p">> :> 0) @@ (<<"D", "o", "w", "n">> :> 1) @@ (<<"S", "i", "d", "e">> :> 2),
        (<<"U", "p">> :> StatusCodeName) @@ (<<"D", "o", "w", "n">> :> StatusCodeName)
            @@ (<<"S", "i", "d", "e">> :> StatusCodeName))

\* a package whose second constant repeats the initializer of the first:
\*   const (
\*       // Hi high
\*       Hi StatusCode = 1
\*       // Lo low
\*       Lo
\*   )
PkgDup ==
    Package(<<"d", "u", "p">>,
        << ConstDecl(<<
             ValueSpec(Ident(StatusCodeName), TRUE, <<<<"H", "i">>>>, DocOf(<<"H", "i", " ", "h", "i", "g", "h", "\n">>)),
             ValueSpec(NoType, FALSE, <<<<"L", "o">>>>, DocOf(<<"L", "o", " ", "l", "o", "w", "\n">>)) >>) >>,
        (<<"H", "i">> :> 1) @@ (<<"L", "o">> :> 1),
        (<<"H", "i">> :> StatusCodeName) @@ (<<"L", "o">> :> StatusCodeName))

\* a package with a spec of a qualified type between a spec of the type and
\* a bare spec, which repeats the qualified type and its initializer:
\*   const (
\*       // Ok fine
\*       Ok StatusCode = 1
\*       Wait time.Duration = 2
\*       // Late overdue
\*       Late
\*   )
PkgMixed ==
    Package(<<"m", "i", "x", "e", "d">>,
        << ConstDecl(<<
             ValueSpec(Ident(StatusCodeName), TRUE, <<<<"O", "k">>>>, DocOf(<<"O", "k", " ", "f", "i", "n", "e", "\n">>)),
             ValueSpec(SelectorExpr, TRUE, <<<<"W", "a", "i", "t">>>>, NoDoc),
             ValueSpec(NoType, FALSE, <<<<"L", "a", "t", "e">>>>, DocOf(<<"L", "a", "t", "e", " ", "o", "v", "e", "r", "d", "u", "e", "\n">>)) >>) >>,
        (<<"O", "k">> :> 1) @@ (<<"W", "a", "i", "t">> :> 2) @@ (<<"L", "a", "t", "e">> :> 2),
        (<<"O", "k">> :> StatusCodeName) @@ (<<"W", "a", "i", "t">> :> <<"t", "i", "m", "e", ".", "D", "u", "r", "a", "t", "i", "o", "n">>)
            @@ (<<"L", "a", "t", "e">> :> <<"t", "i", "m", "e", ".", "D", "u", "r", "a", "t", "i", "o", "n">>))

SamplePkgs == {PkgHttp, PkgUtil, PkgFlags, PkgDup, PkgMixed}

\* the values the generated method is called on
TargetValues == {0, 1, 2, 3, 400, 404}

\* args[0]
Dirs == {<<".">>, <<"s", "u", "b">>}

\* the -output flag
Outputs == {EmptyStr, <<"o", "u", "t", ".", "g", "o">>}

\* ------------------------------------------------------------------ parseDir

\* main.go:71-74, 112-118: the process starts with its flags parsed
InitRun ==
    /\ mode = "run"
    /\ pc = "main"
    /\ typeName \in {EmptyStr, StatusCodeName}
    /\ InitExtract
    /\ IdleLabel
    /\ dir \in Dirs
    /\ output \in Outputs
    /\ pkgs = {}
    /\ todo = {}
    /\ cur = <<>>
    /\ vals = <<>>
    /\ outputName = EmptyStr
    /\ buf = <<>>
    /\ fs = {}
    /\ steps = <<>>
    /\ exit = -1

\* one step of the run, for the history
Event(pkgName, step, ok) == [pkg |-> pkgName, step |-> step, ok |-> ok]

\* main.go:120-138, 273-279: main up to the call of parseDir: without -type
\* the usage is printed and the process exits with status 2; isDirectory
\* ends the process with log.Fatal when dir cannot be examined; a dir that
\* is no directory gives the usage and status 2
Main ==
    /\ mode = "run"
    /\ pc = "main"
    /\ IF typeName = EmptyStr
       THEN /\ pc' = "exited"
            /\ exit' = 2
            /\ steps' = steps
       ELSE \/ /\ pc' = "exited"
               /\ exit' = 1
               /\ steps' = Append(steps, Event(EmptyStr, "stat", FALSE))
            \/ /\ pc' = "exited"
               /\ exit' = 2
               /\ steps' = steps
            \/ /\ pc' = "parseDir"
               /\ exit' = exit
               /\ steps' = steps
    /\ UNCHANGED <<mode, typeName, extractVars, labelVars, dir, output, pkgs,
                   todo, cur, vals, outputName, buf, fs>>

\* main.go:142-148: parser.ParseDir returns the packages of dir, or an
\* error (a file that does not parse, a directory that cannot be read), on
\* which log.Fatal ends the process
ParseDir ==
    /\ mode = "run"
    /\ pc = "parseDir"
    /\ \/ /\ pkgs' \in { ps \in SUBSET SamplePkgs : Cardinality(ps) <= MaxPkgs }
          /\ todo' = pkgs'
          /\ steps' = Append(steps, Event(EmptyStr, "parseDir", TRUE))
          /\ pc' = "range"
          /\ exit' = exit
       \/ /\ pkgs' = pkgs
          /\ todo' = todo
          /\ steps' = Append(steps, Event(EmptyStr, "parseDir", FALSE))
          /\ pc' = "exited"
          /\ exit' = 1
    /\ UNCHANGED <<mode, typeName, extractVars, labelVars, dir, output,
                   cur, vals, outputName, buf, fs>>

\* main.go:149: the range loop takes a package the loop has not visited (a
\* Go map is ranged over in no fixed order)
RangeNext ==
    /\ mode = "run"
    /\ pc = "range"
    /\ \E p \in todo :
         /\ cur' = <<p>>
         /\ todo' = todo \ {p}
    /\ pc' = "check"
    /\ vals' = <<>>
    /\ outputName' = EmptyStr
    /\ buf' = <<>>
    /\ UNCHANGED <<mode, typeName, extractVars, labelVars, dir, output, pkgs,
                   fs, steps, exit>>

\* main.go:149,182: the loop is over, parseDir and main return
RangeDone ==
    /\ mode = "run"
    /\ pc = "range"
    /\ todo = {}
    /\ pc' = "returned"
    /\ exit' = 0
    /\ cur' = <<>>
    /\ UNCHANGED <<mode, typeName, extractVars, labelVars, dir, output, pkgs,
                   todo, vals, outputName, buf, fs, steps>>

\* CheckPackages with log.Printf in place of log.Fatalf
CheckPackagesLogsOnly ==
    /\ mode = "run"
    /\ pc = "check"
    /\ \E ok \in BOOLEAN :
         /\ steps' = Append(steps, Event(cur[1].Name, "check", ok))
         /\ pc' = "parse"
         /\ exit' = exit
    /\ UNCHANGED <<mode, typeName, extractVars, labelVars, dir, output, pkgs,
                   todo, cur, vals, outputName, buf, fs>>

\* main.go:150, 281-293: checkPackages; the type checker accepts the
\* package, or log.Fatalf ends the process with status 1
CheckPackages ==
    /\ mode = "run"
    /\ pc = "check"
    /\ \/ /\ steps' = Append(steps, Event(cur[1].Name, "check", TRUE))
          /\ pc' = "parse"
          /\ exit' = exit
       \/ /\ steps' = Append(steps, Event(cur[1].Name, "check", FALSE))
          /\ pc' = "exited"
          /\ exit' = 1
    /\ UNCHANGED <<mode, typeName, extractVars, labelVars, dir, output, pkgs,
                   todo, cur, vals, outputName, buf, fs>>

\* Extract without the continue of lines 154-156
ExtractNoSkip ==
    /\ mode = "run"
    /\ pc = "parse"
    /\ vals' = parsePackage(cur[1].Decls, typeName)
    /\ steps' = Append(steps, Event(cur[1].Name, "parse", TRUE))
    /\ outputName' = OutputName(output, dir, typeName, cur[1].Name, Cardinality(pkgs))
    /\ pc' = "execute"
    /\ UNCHANGED <<mode, typeName, extractVars, labelVars, dir, output, pkgs,
                   todo, cur, buf, fs, exit>>

\* main.go:152-178: parsePackage, the continue on an empty result, and
\* the destination of the file
Extract ==
    /\ mode = "run"
    /\ pc = "parse"
    /\ vals' = parsePackage(cur[1].Decls, typeName)
    /\ steps' = Append(steps, Event(cur[1].Name, "parse", TRUE))
    /\ IF Len(vals') = 0
       THEN /\ pc' = "range"
            /\ outputName' = outputName
       ELSE /\ pc' = "execute"
            /\ outputName' = OutputName(output, dir, typeName, cur[1].Name,
                                        Cardinality(pkgs))
    /\ UNCHANGED <<mode, typeName, extractVars, labelVars, dir, output, pkgs,
                   todo, cur, buf, fs, exit>>

\* main.go:256-259: fileTemplate.Execute into buf, or log.Fatal
Execute ==
    /\ mode = "run"
    /\ pc = "execute"
    /\ \/ /\ buf' = <<Render(TmplData(cur[1].Name, typeName, vals))>>
          /\ steps' = Append(steps, Event(cur[1].Name, "execute", TRUE))
          /\ pc' = "format"
          /\ exit' = exit
       \/ /\ buf' = buf
          /\ steps' = Append(steps, Event(cur[1].Name, "execute", FALSE))
          /\ pc' = "exited"
          /\ exit' = 1
    /\ UNCHANGED <<mode, typeName, extractVars, labelVars, dir, output, pkgs,
                   todo, cur, vals, outputName, fs>>

\* main.go:261-264: format.Source, which changes the layout of the text
\* and not its declarations, or log.Fatal
Format ==
    /\ mode = "run"
    /\ pc = "format"
    /\ \/ /\ steps' = Append(steps, Event(cur[1].Name, "format", TRUE))
          /\ pc' = "write"
          /\ exit' = exit
       \/ /\ steps' = Append(steps, Event(cur[1].Name, "format", FALSE))
          /\ pc' = "exited"
          /\ exit' = 1
    /\ UNCHANGED <<mode, typeName, extractVars, labelVars, dir, output, pkgs,
                   todo, cur, vals, outputName, buf, fs>>

\* main.go:266-269: ioutil.WriteFile creates or replaces the file, or
\* log.Fatal
WriteFile ==
    /\ mode = "run"
    /\ pc = "write"
    /\ \/ /\ fs' = { f \in fs : f.name # outputName } \cup
                   { [name |-> outputName, by |-> cur[1].Name, data |-> buf[1]] }
          /\ steps' = Append(steps, Event(cur[1].Name, "write", TRUE))
          /\ pc' = "range"
          /\ exit' = exit
       \/ /\ fs' = fs
          /\ steps' = Append(steps, Event(cur[1].Name, "write", FALSE))
          /\ pc' = "exited"
          /\ exit' = 1
    /\ UNCHANGED <<mode, typeName, extractVars, labelVars, dir, output, pkgs,
                   todo, cur, vals, outputName, buf>>

NextRun ==
    \/ Main
    \/ ParseDir
    \/ RangeNext
    \/ RangeDone
    \/ CheckPackages
    \/ Extract
    \/ Execute
    \/ Format
    \/ WriteFile

SpecRun == InitRun /\ [][NextRun]_vars

\* -------------------------------------------------- claims about the run

\* the package of the directory with a given name
PkgNamed(name) == CHOOSE p \in pkgs : p.Name = name

\* the entries extraction produces for a package
EntriesOf(p) == parsePackage(p.Decls, typeName)

\* the method of file f returns, for every entry of the package's
\* extraction, that entry's message on the entry's constant, and "Unknown"
\* on every value that is no entry's constant
ReturnsMessages(f) ==
    LET p == PkgNamed(f.by)
        entries == EntriesOf(p)
    IN /\ \A i \in 1..Len(entries) :
            StringMethod(f.data, p.Val, p.Typ, p.Val[entries[i].Name])
                = [compiles |-> TRUE, ret |-> entries[i].Msg]
       /\ \A v \in TargetValues :
            (\A i \in 1..Len(entries) : p.Val[entries[i].Name] # v)
                => StringMethod(f.data, p.Val, p.Typ, v)
                     = [compiles |-> TRUE, ret |-> <<"U", "n", "k", "n", "o", "w", "n">>]

\* the constants of the entries of a package have pairwise distinct values
DistinctValues(p) ==
    LET entries == EntriesOf(p) IN
    \A i, j \in 1..Len(entries) :
        i # j => p.Val[entries[i].Name] # p.Val[entries[j].Name]

\* C4 (as claimed, on the packages whose entries' constants have pairwise
\* distinct values: on one value a method returns one message): the
\* generated method of every file written returns the message of each entry
\* on that entry's constant and "Unknown" on any other value.
C4_StringReturnsMessage ==
    \A f \in fs : DistinctValues(PkgNamed(f.by)) => ReturnsMessages(f)

\* the events of the history about package name
EventsOf(name) == SelectSeq(steps, LAMBDA e : e.pkg = name)

\* C6: a package whose extraction is empty is not rendered, formatted or
\* written and ends no run: after its extraction the loop goes on, and a
\* run that returns has visited every package and exits with status 0.
C6_EmptyExtractionSkipped ==
    /\ \A p \in pkgs :
         (/\ EntriesOf(p) = <<>>
          /\ \E i \in 1..Len(steps) : steps[i].pkg = p.Name /\ steps[i].step = "parse")
         => /\ \A f \in fs : f.by # p.Name
            /\ \A i \in 1..Len(steps) :
                 steps[i].pkg = p.Name => (steps[i].step \in {"check", "parse"} /\ steps[i].ok)
            /\ (steps[Len(steps)].pkg = p.Name) => (pc # "exited" /\ exit # 1)
    /\ pc = "returned" => (exit = 0 /\ todo = {})

\* C6 witness: a run that visited a package with an empty extraction first,
\* wrote another package's file after it and returned
C6_Witness ==
    /\ pc = "returned"
    /\ exit = 0
    /\ \E i \in 1..Len(steps) :
         /\ steps[i].step = "parse"
         /\ EntriesOf(PkgNamed(steps[i].pkg)) = <<>>
         /\ \E j \in (i + 1)..Len(steps) : steps[j].step = "write" /\ steps[j].ok
    /\ fs # {}

\* the default file name of a type
DefaultBase(tName) == ToLower(tName) \o <<"_", "s", "t", "r", "i", "n", "g", "_", "g", "e", "n", ".", "g", "o">>

\* a destination as claimed for package pkgName without -output
DefaultDestination(name, pkgName) ==
    /\ Dir(name) = Clean(dir)
    /\ Base(name) = IF Cardinality(pkgs) > 1
                    THEN pkgName \o <<"_">> \o DefaultBase(typeName)
                    ELSE DefaultBase(typeName)

\* C7 (as claimed): without -output, the file of a package is written
\* inside dir, named <lowercased type>_string_gen.go, with the package name
\* prefixed to that file name when the directory holds several packages.
C7_DefaultDestination ==
    output = EmptyStr =>
        /\ pc \in {"execute", "format", "write"}
             => DefaultDestination(outputName, cur[1].Name)
        /\ \A f \in fs : DefaultDestination(f.name, f.by)

\* the steps of the loop over the packages that can fail
PackageSteps == {"check", "execute", "format", "write"}

\* C10: a failed step is the last thing the run does: it is the last event
\* of the history and the process has exited with status 1; a failed check,
\* template execution, formatting or write belongs to the package of the
\* current iteration, whose file is not written, and no package the loop
\* had not reached has any event; a failure before the loop (dir cannot be
\* examined, the directory does not parse) leaves every package without
\* event and no file written. Status 1 is only ever the exit of a failed
\* step.
C10_FatalAborts ==
    /\ \A i \in 1..Len(steps) :
         ~steps[i].ok =>
            /\ i = Len(steps)
            /\ pc = "exited"
            /\ exit = 1
            /\ steps[i].step \in PackageSteps =>
                 /\ cur # <<>> /\ cur[1].Name = steps[i].pkg
                 /\ \A f \in fs : f.by # steps[i].pkg
            /\ steps[i].step \notin PackageSteps =>
                 /\ fs = {}
                 /\ \A j \in 1..Len(steps) : steps[j].step \notin PackageSteps \cup {"parse"}
            /\ \A p \in todo : EventsOf(p.Name) = <<>>
    /\ exit = 1 => (steps # <<>> /\ ~steps[Len(steps)].ok)

\* C10 witness: the file of the first package was written, the check of the
\* second failed and a third package was never reached
C10_Witness ==
    /\ exit = 1
    /\ fs # {}
    /\ todo # {}
    /\ steps[Len(steps)].step = "check"

====
